---- MODULE Spec2Model ----
(***************************************************************************)
(* Model of the storacha-migration-tool migration engine:                  *)
(*   StorachaMigrator (src/src/StorachaMigrator.ts)                        *)
(*   RetryManager     (src/src/managers/RetryManager.ts)                   *)
(*   EventManager     (src/unnamed/part_015)                               *)
(*   S3Service        (src/src/services/s3Service.ts)                      *)
(*   StorachaClient   (src/unnamed/part_020)                               *)
(*   ConnectionManager(src/src/managers/ConnectionManager.ts)              *)
(*                                                                         *)
(* Every await of the TypeScript code is a step boundary; in addition a    *)
(* step delivers at most one snapshot to the progress subscriber, so the   *)
(* straight-line code between two awaits is cut after each updateProgress. *)
(* Percentages are exact rationals <<n, d>> (n/d percent, in lowest terms) *)
(* in place of IEEE doubles.  Wall-clock derived fields (elapsedTime,      *)
(* formatted sizes, log file writes) are not part of the state.            *)
(***************************************************************************)
EXTENDS Integers, Sequences, FiniteSets, TLC

\* ------------------------------------------------------------------ bounds
MaxCalls == 2          \* migration calls made on the one Engine instance
MaxFaults == 2         \* adapter faults (throws / failed uploads) injected
MaxAttemptsCfg == 2    \* largest retry.maxAttempts of the Engine
MaxRetryAttempts == 4  \* largest retry.maxAttempts given to withRetry alone
MaxRegistrations == 2  \* onProgress calls made on one EventManager
MaxEmits == 2          \* fileComplete / error events emitted on one EventManager
\* Date.now() advances at most this far
MaxClock == 1
\* iterations of the while loop of createUniqueName
MaxDraws == 2

\* ------------------------------------------------------- the environment
\* Objects of the source bucket and their sizes in bytes.
Bucket == [a |-> 1000, b |-> 500]
Keys == DOMAIN Bucket
ChunkBytes == 500
\* Prefixes a caller may ask for and the keys each one lists.
Listing == [none |-> <<>>, one |-> <<"a">>, two |-> <<"a", "b">>]
Prefixes == DOMAIN Listing
\* Collection lists the database may report, and the size in bytes of the
\* JSON export of each collection.
CollectionLists == {<<>>, <<"c1">>, <<"c1", "c2">>}
Exports == [c1 |-> 500, c2 |-> 1000]
SizeOf(k) == IF k \in DOMAIN Bucket THEN Bucket[k] ELSE Exports[k]

VARIABLES
  config,      \* StorachaMigratorConfig: retry settings, which adapters exist
  conn,        \* ConnectionManager: which connections are open
  progress,    \* EventManager.progress, the mutable snapshot
  snapshot,    \* what the progress subscriber received last in this call
  errorCalls,  \* invocations of the error subscriber in this call
  call,        \* the public operation in flight (kind, argument, context)
  callNo,      \* number of migration calls started on this Engine
  pc,          \* position of the single flow of control
  attempt,     \* withRetry: loop variable
  lastError,   \* withRetry: lastError.message
  invocations, \* withRetry: outcomes of operation() so far in this call
  waits,       \* withRetry: the delays awaited so far in this call
  outcome,     \* how the last call ended: returned value or raised error
  tasks,       \* fetchFileFromS3 invocations in flight
  gen,         \* number of fetch groups launched so far
  body,        \* locals of the retried block (listing, index, results)
  adapterCalls,\* per-call counts of Source/Destination Adapter invocations
  isUploading, \* StorachaClient.isUploading
  faults,      \* adapter faults injected so far
  progressCallback, \* EventManager.progressCallback: the subscriber, if any
  registered,  \* the callbacks handed to onProgress so far, in order
  notified,    \* the subscribers invoked by the last updateProgress
  engines,     \* the StorachaMigrator instances of the process, by name
  usedNames,   \* nameGenerator.ts: the module-level set usedNames
  now,         \* Date.now()
  env,         \* process.env.STORACHA_EMAIL
  alone,       \* each instance's state had it run alone on the same inputs
  uploads      \* direct uploadDirectoryToStoracha calls on one StorachaClient

vars == <<config, conn, progress, snapshot, errorCalls, call, callNo, pc,
          attempt, lastError, invocations, waits, outcome, tasks, gen, body,
          adapterCalls, isUploading, faults, progressCallback, registered,
          notified, engines, usedNames, now, env, alone, uploads>>

instVars == <<engines, usedNames, now, env, alone, uploads>>

\* ------------------------------------------------------------ arithmetic
RECURSIVE GCD(_, _)
GCD(x, y) == IF y = 0 THEN x ELSE GCD(y, x % y)

Abs(x) == IF x < 0 THEN -x ELSE x

\* The rational n/d in lowest terms with a positive denominator.
Rat(n, d) ==
  LET g == GCD(Abs(n), Abs(d))
      s == IF d < 0 THEN -1 ELSE 1
  IN  <<(s * n) \div g, (s * d) \div g>>

Num(n) == <<n, 1>>
RatLeq(p, q) == p[1] * q[2] <= q[1] * p[2]
RatMin(p, q) == IF RatLeq(p, q) THEN p ELSE q
\* (x / y) * 100 for y # 0
Percent(x, y) == Rat(100 * x, y)

Pow2(n) == 2 ^ n
Min(x, y) == IF x <= y THEN x ELSE y
CeilDiv(x, y) == (x + y - 1) \div y

RECURSIVE SumSizes(_)
SumSizes(ks) == IF ks = <<>> THEN 0 ELSE SizeOf(Head(ks)) + SumSizes(Tail(ks))

\* --------------------------------------------------------- RetryManager
\* calculateBackoff with the exponent off by one.
CalculateBackoffDoubled(att) ==
  Min(config.backoffMs * Pow2(att), config.maxBackoffMs)

\* RetryManager.calculateBackoff
CalculateBackoff(att) ==
  Min(config.backoffMs * Pow2(att - 1), config.maxBackoffMs)

\* The message built by withRetry's final throw.
ExhaustedError(ctx, last) ==
  [op |-> "Operation", context |-> ctx,
   attempts |-> config.maxAttempts, last |-> last]

\* withRetry's catch block: the operation threw an error with message m.
\* The for-loop increment runs when the delay is over (continue) or at once.
Catch(m) ==
  /\ lastError' = m
  /\ invocations' = Append(invocations, [result |-> "threw", value |-> m])
  /\ IF attempt < config.maxAttempts
       THEN /\ waits' = Append(waits, CalculateBackoff(attempt))
            /\ attempt' = attempt
            /\ pc' = "backoff"
       ELSE /\ waits' = waits
            /\ attempt' = attempt + 1
            /\ pc' = "loop"

\* A withRetry that records the result but goes on with the loop.
ReturnAndContinue(r) ==
  /\ invocations' = Append(invocations, [result |-> "returned", value |-> r])
  /\ outcome' = [kind |-> "returned", value |-> r]
  /\ attempt' = attempt + 1
  /\ pc' = "loop"
  /\ UNCHANGED <<instVars, lastError, waits>>

\* withRetry's "return await operation()": the operation resolved to r.
Return(r) ==
  /\ invocations' = Append(invocations, [result |-> "returned", value |-> r])
  /\ outcome' = [kind |-> "returned", value |-> r]
  /\ pc' = "idle"
  /\ UNCHANGED <<instVars, attempt, lastError, waits>>

\* ---------------------------------------------------------- EventManager
\* EventManager.initializeProgress
InitializeProgress ==
  [status |-> "preparing", phase |-> "preparing", percentage |-> Num(0),
   totalFiles |-> 0, completedFiles |-> 0, failedFiles |-> 0,
   remainingFiles |-> 0, totalBytes |-> 0, processedBytes |-> 0,
   bytesUploaded |-> 0, downloadSpeed |-> 0, uploadSpeed |-> 0,
   estimatedTimeRemaining |-> "Calculating...",
   downloadedBytes |-> 0, totalDownloadBytes |-> 0,
   uploadedBytes |-> 0, totalUploadBytes |-> 0,
   currentShardIndex |-> 0, totalShards |-> 0, errors |-> <<>>,
   \* optional fields, absent until an update supplies them
   \* (an absent time is <<>>, an absent batch count is -1)
   currentFile |-> "undefined", startTime |-> <<>>,
   endTime |-> <<>>, totalBatches |-> -1]

\* updateProgress({}): an update that sets nothing
NoUpdate == [f \in {} |-> 0]

\* { ...p, ...u }
Merge(p, u) ==
  [f \in DOMAIN p |-> IF f \in DOMAIN u THEN u[f] ELSE p[f]]

\* The "status === 'completed'" block of updateProgress.
ForceCompleted(p, u) ==
  IF "status" \in DOMAIN u /\ u.status = "completed"
    THEN [phase |-> "completed", remainingFiles |-> 0,
          processedBytes |-> p.totalBytes, percentage |-> Num(100),
          bytesUploaded |-> p.totalBytes,
          estimatedTimeRemaining |-> "Complete",
          downloadSpeed |-> 0, uploadSpeed |-> 0] @@ u
    ELSE u

\* The "Calculate overall progress" block of updateProgress: it reads the
\* snapshot as it was before the merge.
OverallProgress(p, u) ==
  IF p.totalBytes > 0
    THEN [percentage |->
            RatMin(Num(100), Percent(p.processedBytes, p.totalBytes))] @@ u
    ELSE u

\* EventManager.updateProgress: the snapshot after the update.
UpdateProgress(p, u) == Merge(p, OverallProgress(p, ForceCompleted(p, u)))

\* An updateFileProgress that writes the byte count to both phases.
UpdateFileProgressBoth(p, fileKey, bytesProcessed, totalBytes, phase) ==
  UpdateProgress([p EXCEPT !.downloadedBytes = bytesProcessed,
                           !.uploadedBytes = bytesProcessed,
                           !.currentFile = fileKey, !.phase = phase],
                 NoUpdate)

\* EventManager.updateFileProgress
UpdateFileProgress(p, fileKey, bytesProcessed, totalBytes, phase) ==
  LET q == IF phase = "download"
             THEN [p EXCEPT !.downloadedBytes = bytesProcessed,
                            !.totalDownloadBytes =
                               IF @ = 0 THEN totalBytes ELSE @]
             ELSE [p EXCEPT !.uploadedBytes = bytesProcessed,
                            !.totalUploadBytes =
                               IF @ = 0 THEN totalBytes ELSE @]
  IN  UpdateProgress([q EXCEPT !.currentFile = fileKey, !.phase = phase],
                     NoUpdate)

\* A setTotalBytes that publishes a snapshot without storing the totals.
SetTotalBytesDropped(p, downloadBytes, uploadBytes) ==
  UpdateProgress(p, NoUpdate)

\* EventManager.setTotalBytes
SetTotalBytes(p, downloadBytes, uploadBytes) ==
  UpdateProgress([p EXCEPT !.totalDownloadBytes = downloadBytes,
                           !.totalUploadBytes = uploadBytes,
                           !.totalBytes = downloadBytes + uploadBytes],
                 NoUpdate)

\* EventManager.emit('fileComplete', ...)
EmitFileComplete(p) ==
  LET q == [p EXCEPT !.completedFiles = @ + 1]
      r == IF q.completedFiles = q.totalFiles
             THEN [q EXCEPT !.status = "completed", !.phase = "completed",
                            !.percentage = Num(100), !.remainingFiles = 0]
             ELSE q
  IN  UpdateProgress(r, NoUpdate)

\* EventManager.emit('error', error, fileKey): no snapshot is delivered.
EmitError(p, error, fileKey) ==
  [p EXCEPT !.failedFiles = @ + 1, !.status = "error",
            !.errors = Append(@, [file |-> fileKey, error |-> error])]

\* The end of updateProgress: the snapshot is stored and handed to the
\* progress callback when one is registered.
Deliver(p) ==
  /\ progress' = p
  /\ IF progressCallback # "undefined"
       THEN snapshot' = p /\ notified' = <<progressCallback>>
       ELSE snapshot' = snapshot /\ notified' = <<>>

\* ------------------------------------------------------- StorachaClient
\* StorachaClient.connect builds the Engine's client with "new
\* StorachaClient()": it has no EventManager, so every
\* "this.eventManager?.updateProgress" of the client is skipped.
ClientEventManager == FALSE

\* uploadToStoracha / uploadDirectoryToStoracha: the UploadResponse values.
UploadSuccess(size) ==
  [success |-> TRUE, cid |-> "cid", url |-> "https://cid.ipfs.w3s.link",
   size |-> size, status |-> "success", error |-> "undefined"]

\* A failure response that drops the message of the caught error.
UploadFailureSilent(message) ==
  [success |-> FALSE, cid |-> "undefined", url |-> "undefined",
   size |-> "undefined", status |-> "failed", error |-> "undefined"]

UploadFailure(message) ==
  [success |-> FALSE, cid |-> "undefined", url |-> "undefined",
   size |-> "undefined", status |-> "failed", error |-> message]

\* ------------------------------------------------------------ the state
\* Retry configurations under which withRetry is exercised on its own.
RetryConfigs ==
  [maxAttempts : 1..MaxRetryAttempts, backoffMs : {1, 2},
   maxBackoffMs : {3, 8}, hasS3 : {TRUE}, hasMongo : {FALSE},
   batchSize : {5}, concurrency : {1}]

\* Configurations accepted by validateConfig, for the Engine as a whole.
Configs ==
  [maxAttempts : 1..MaxAttemptsCfg, backoffMs : {1}, maxBackoffMs : {3},
   hasS3 : {TRUE}, hasMongo : BOOLEAN, batchSize : {1, 5},
   concurrency : {1}]

\* Nothing has been delivered yet in this call.
NoSnapshot == [status |-> "none"]
NoCall == [kind |-> "none", arg |-> "none", context |-> <<>>]
NoBody == [keys |-> <<>>, i |-> 0, total |-> 0, results |-> <<>>,
           completed |-> 0, result |-> [status |-> "none"], gen |-> 0]
\* files: the units handed to the Destination Adapter by the last upload.
NoAdapterCalls ==
  [list |-> 0, fetch |-> 0, batches |-> 0, upload |-> 0, files |-> <<>>]

\* Callers that use one StorachaClient directly, and a caller that has no
\* uploadDirectoryToStoracha call in flight or behind it.
Callers == {"p", "q", "r"}
NoUpload == [st |-> "idle", files |-> <<>>, served |-> 0,
             result |-> [status |-> "none"]]

\* StorachaMigrator instances living in one process. The constructor gives
\* each its own ConnectionManager and its own EventManager.
Instances == {"x", "y"}

\* nameGenerator.ts: baseNames (two of the twenty-four)
BaseNames == {"Alpha", "Beta"}

\* new StorachaMigrator(config, {progressCallback}): nothing connected, a
\* fresh snapshot, no space created yet. names lists the values of the
\* local spaceName of its createSpace calls so far.
NewEngine ==
  [initialized |-> FALSE, progress |-> InitializeProgress,
   snapshot |-> NoSnapshot, space |-> "none", names |-> <<>>]

\* The process before any instance has acted: usedNames is empty, and each
\* instance run alone starts from the same state.
InitInstances(emails) ==
  /\ engines = [i \in Instances |-> NewEngine]
  /\ usedNames = {}
  /\ now = 0
  /\ env \in emails
  /\ alone = [i \in Instances |-> [engine |-> NewEngine, usedNames |-> {}]]
  /\ uploads = [c \in Callers |-> NoUpload]

InitWith(cfgs) ==
  /\ InitInstances({"user@domain"})
  /\ config \in cfgs
  /\ conn = [s3 |-> FALSE, storacha |-> FALSE, mongo |-> "none"]
  /\ progress = InitializeProgress
  /\ snapshot = NoSnapshot
  /\ errorCalls = <<>>
  /\ call = NoCall
  /\ callNo = 0
  /\ pc = "idle"
  /\ attempt = 0
  /\ lastError = "none"
  /\ invocations = <<>>
  /\ waits = <<>>
  /\ outcome = [kind |-> "none"]
  /\ tasks = {}
  /\ gen = 0
  /\ body = NoBody
  /\ adapterCalls = NoAdapterCalls
  /\ isUploading = FALSE
  /\ faults = 0

\* The caller gave a progressCallback in the MigrationOptions: the
\* constructor registers it.
Subscribed ==
  /\ progressCallback = "progressCallback"
  /\ registered = <<"progressCallback">>
  /\ notified = <<>>

Init == InitWith(Configs) /\ Subscribed
InitRetry == InitWith(RetryConfigs) /\ Subscribed

Fault == faults < MaxFaults /\ faults' = faults + 1
NoFault == faults' = faults

retryVars == <<attempt, lastError, invocations, waits>>
emVars == <<progress, snapshot, notified, notified>>

\* ----------------------------------------------------- ConnectionManager
\* StorachaMigrator.initialize -> ConnectionManager.initializeConnections
Initialize ==
  /\ pc = "idle"
  /\ conn.storacha = FALSE
  /\ \/ /\ conn' = [s3 |-> config.hasS3, storacha |-> TRUE,
                    mongo |-> IF config.hasMongo THEN "open" ELSE "none"]
        /\ NoFault
     \/ \* StorachaClient.connect rejects: only the S3 client exists
        /\ conn' = [conn EXCEPT !.s3 = config.hasS3]
        /\ Fault
     \/ \* MongoDBService.connect rejects: the service object is kept
        /\ config.hasMongo
        /\ conn' = [s3 |-> config.hasS3, storacha |-> TRUE,
                    mongo |-> "unconnected"]
        /\ Fault
  /\ UNCHANGED <<instVars, progressCallback, registered, config, progress, snapshot, notified, errorCalls, call, callNo, pc,
                 attempt, lastError, invocations, waits, outcome, tasks, gen,
                 body, adapterCalls, isUploading>>

\* StorachaMigrator.close -> ConnectionManager.closeConnections: every
\* reference is dropped, or mongoConnection.close() rejects, nothing after
\* it in the try block runs and close() raises.
Close ==
  /\ pc = "idle"
  /\ conn.storacha \/ conn.s3 \/ conn.mongo # "none"
  /\ \/ /\ conn' = [s3 |-> FALSE, storacha |-> FALSE, mongo |-> "none"]
        /\ outcome' = [kind |-> "returned", value |-> [void |-> TRUE]]
     \/ /\ conn.mongo # "none"
        /\ conn' = conn
        /\ outcome' = [kind |-> "raised",
                       value |-> [message |-> "Failed to close connections"]]
  /\ call' = [kind |-> "close", arg |-> "none", context |-> <<>>]
  /\ NoFault
  /\ UNCHANGED <<instVars, progressCallback, registered, config, progress, snapshot,
                 notified, errorCalls, callNo, pc, attempt, lastError,
                 invocations, waits, tasks, gen, body, adapterCalls,
                 isUploading>>

\* ---------------------------------------------------------- withRetry
\* A public operation is called: withRetry(operation, context) starts.
StartCall(kind, arg) ==
  /\ pc = "idle"
  /\ callNo < MaxCalls
  /\ call' = [kind |-> kind, arg |-> arg, context |-> <<"migrate", kind, arg>>]
  /\ callNo' = callNo + 1
  /\ attempt' = 1
  /\ lastError' = "No error details available"
  /\ invocations' = <<>>
  /\ waits' = <<>>
  /\ outcome' = [kind |-> "pending"]
  /\ snapshot' = NoSnapshot
  /\ notified' = <<>>
  /\ errorCalls' = <<>>
  /\ adapterCalls' = NoAdapterCalls
  /\ body' = NoBody
  /\ pc' = "loop"
  /\ UNCHANGED <<instVars, progressCallback, registered, config, conn, progress, tasks, gen, isUploading, faults>>

MigrateFile == \E k \in Keys : StartCall("file", k)
MigrateDirectory == \E d \in Prefixes : StartCall("directory", d)
MigrateMongoDb == \E c \in {"undefined", "c1"} : StartCall("mongodb", c)

BodyStart(kind) ==
  CASE kind = "file" -> "f_prepare"
    [] kind = "directory" -> "d_connections"
    [] kind = "mongodb" -> "m_connections"
    [] kind = "operation" -> "op_run"

\* The for statement with "attempt < maxAttempts" as its condition.
LoopOneShort ==
  /\ pc = "loop"
  /\ IF attempt < config.maxAttempts
       THEN /\ pc' = BodyStart(call.kind)
            /\ body' = NoBody
            /\ outcome' = outcome
       ELSE /\ pc' = "idle"
            /\ body' = body
            /\ outcome' = [kind |-> "raised",
                           value |-> ExhaustedError(call.context, lastError)]
  /\ UNCHANGED <<instVars, progressCallback, registered, config, conn, progress, snapshot, notified, errorCalls, call, callNo,
                 attempt, lastError, invocations, waits, tasks, gen,
                 adapterCalls, isUploading, faults>>

\* The for statement of withRetry: test the condition, then either run
\* the operation once more or leave the loop and throw.
Loop ==
  /\ pc = "loop"
  /\ IF attempt <= config.maxAttempts
       THEN /\ pc' = BodyStart(call.kind)
            /\ body' = NoBody
            /\ outcome' = outcome
       ELSE /\ pc' = "idle"
            /\ body' = body
            /\ outcome' = [kind |-> "raised",
                           value |-> ExhaustedError(call.context, lastError)]
  /\ UNCHANGED <<instVars, progressCallback, registered, config, conn, progress, snapshot, notified, errorCalls, call, callNo,
                 attempt, lastError, invocations, waits, tasks, gen,
                 adapterCalls, isUploading, faults>>

\* A delay that never ends: the next attempt is never started.
BackoffDoneNever ==
  /\ pc = "backoff"
  /\ attempt' = attempt
  /\ pc' = "backoff"
  /\ UNCHANGED <<instVars, progressCallback, registered, config, conn, progress, snapshot, notified, errorCalls, call, callNo,
                 lastError, invocations, waits, outcome, tasks, gen, body,
                 adapterCalls, isUploading, faults>>

\* The delay of withRetry is over: continue with the next attempt.
BackoffDone ==
  /\ pc = "backoff"
  /\ attempt' = attempt + 1
  /\ pc' = "loop"
  /\ UNCHANGED <<instVars, progressCallback, registered, config, conn, progress, snapshot, notified, errorCalls, call, callNo,
                 lastError, invocations, waits, outcome, tasks, gen, body,
                 adapterCalls, isUploading, faults>>

\* withRetry applied to an arbitrary operation: each invocation of it
\* either rejects with some error or resolves to some value.
WithRetry == StartCall("operation", "op")

OperationThrows ==
  /\ pc = "op_run"
  /\ \E m \in {"e1", "e2"} : Catch(m)
  /\ UNCHANGED <<instVars, progressCallback, registered, config, conn, progress, snapshot, notified, errorCalls, call, callNo,
                 outcome, tasks, gen, body, adapterCalls, isUploading, faults>>

OperationReturns ==
  /\ pc = "op_run"
  /\ \E v \in {"v1", "v2"} : Return(v)
  /\ UNCHANGED <<instVars, progressCallback, registered, config, conn, progress, snapshot, notified, errorCalls, call, callNo,
                 tasks, gen, body, adapterCalls, isUploading, faults>>

\* The stamp standing for "new Date()" taken in the current attempt.
Now == <<callNo, attempt>>

\* Connection checks that let every call through.
S3GuardsSkipped == "ok"

\* The connection checks at the top of migrateFile / migrateDirectory:
\* the message of the error thrown, or "ok".
S3Guards ==
  IF ~conn.s3 THEN "S3 connection not initialized"
  ELSE IF ~conn.storacha THEN "Storacha connection not initialized"
  ELSE IF ~config.hasS3 THEN "S3 service not initialized"
  ELSE "ok"

\* ------------------------------------------------------------ S3Service
NewTask(k, g) ==
  [key |-> k, gen |-> g, size |-> Bucket[k], received |-> 0,
   st |-> "sent", live |-> TRUE, err |-> "none"]

Finished(t) == t.st = "streaming" /\ t.received = t.size

\* fetchFileFromS3: the GetObject response arrives, or the send rejects.
TaskResponse(t) ==
  /\ t \in tasks /\ t.st = "sent"
  /\ \/ /\ NoFault
        /\ tasks' = (tasks \ {t}) \cup {[t EXCEPT !.st = "streaming"]}
        /\ Deliver(UpdateProgress(progress, [phase |-> "download"]))
     \/ /\ Fault
        /\ tasks' = (tasks \ {t}) \cup
                    {[t EXCEPT !.st = "failed", !.err = "GetObject failed"]}
        /\ UNCHANGED emVars
  /\ UNCHANGED <<instVars, progressCallback, registered, config, conn, errorCalls, call, callNo, pc, attempt,
                 lastError, invocations, waits, outcome, gen, body,
                 adapterCalls, isUploading>>

\* fetchFileFromS3: one chunk of the body arrives, or the stream fails.
TaskChunk(t) ==
  /\ t \in tasks /\ t.st = "streaming" /\ t.received < t.size
  /\ \/ /\ NoFault
        /\ LET r == Min(t.received + ChunkBytes, t.size)
           IN  /\ tasks' = (tasks \ {t}) \cup {[t EXCEPT !.received = r]}
               /\ Deliver(UpdateFileProgress(progress, t.key, r, t.size,
                                             "download"))
     \/ /\ Fault
        /\ tasks' = (tasks \ {t}) \cup
                    {[t EXCEPT !.st = "failed", !.err = "stream failed"]}
        /\ UNCHANGED emVars
  /\ UNCHANGED <<instVars, progressCallback, registered, config, conn, errorCalls, call, callNo, pc, attempt,
                 lastError, invocations, waits, outcome, gen, body,
                 adapterCalls, isUploading>>

\* A fetch whose Promise.all was already rejected settles unobserved.
TaskForgotten(t) ==
  /\ t \in tasks /\ ~t.live /\ (Finished(t) \/ t.st = "failed")
  /\ tasks' = tasks \ {t}
  /\ UNCHANGED <<instVars, progressCallback, registered, config, conn, progress, snapshot, notified, errorCalls, call, callNo,
                 pc, attempt, lastError, invocations, waits, outcome, gen,
                 body, adapterCalls, isUploading, faults>>

Live == {t \in tasks : t.live}
Detach(ts) == {[t EXCEPT !.live = FALSE] : t \in ts}

\* ----------------------------------------------------------- migrateFile
FilePrepare ==
  /\ pc = "f_prepare"
  /\ Deliver(UpdateProgress(progress,
       [phase |-> "preparing", status |-> "preparing", startTime |-> Now,
        currentFile |-> call.arg, totalFiles |-> 1, completedFiles |-> 0]))
  /\ pc' = "f_connections"
  /\ UNCHANGED <<instVars, progressCallback, registered, config, conn, errorCalls, call, callNo, attempt, lastError,
                 invocations, waits, outcome, tasks, gen, body, adapterCalls,
                 isUploading, faults>>

FileConnections ==
  /\ pc = "f_connections"
  /\ IF S3Guards # "ok"
       THEN /\ Catch(S3Guards)
            /\ UNCHANGED <<instVars, emVars, tasks, gen, body, adapterCalls>>
       ELSE /\ Deliver(UpdateProgress(progress,
                 [phase |-> "download", status |-> "downloading"]))
            /\ gen' = gen + 1
            /\ tasks' = tasks \cup {NewTask(call.arg, gen + 1)}
            /\ body' = [body EXCEPT !.gen = gen + 1]
            /\ adapterCalls' = [adapterCalls EXCEPT !.fetch = @ + 1]
            /\ pc' = "f_fetch"
            /\ UNCHANGED retryVars
  /\ UNCHANGED <<instVars, progressCallback, registered, config, conn, errorCalls, call, callNo, outcome,
                 isUploading, faults>>

\* "await this.s3Service.fetchFileFromS3(fileKey)" settles.
FileFetched ==
  /\ pc = "f_fetch"
  /\ \E t \in Live :
       /\ tasks' = tasks \ {t}
       /\ \/ /\ Finished(t)
             /\ Deliver(UpdateProgress(progress,
                  [phase |-> "upload", status |-> "uploading"]))
             /\ adapterCalls' = [adapterCalls EXCEPT !.upload = @ + 1,
                                                     !.files = <<t.key>>]
             /\ pc' = "f_upload"
             /\ UNCHANGED retryVars
          \/ /\ t.st = "failed"
             /\ Catch(t.err)
             /\ UNCHANGED <<instVars, emVars, adapterCalls>>
  /\ UNCHANGED <<instVars, progressCallback, registered, config, conn, errorCalls, call, callNo, outcome, gen, body,
                 isUploading, faults>>

\* "await storacha.uploadToStoracha(...)" resolves (it never rejects),
\* then the final updateProgress of migrateFile.
FileUploaded ==
  /\ pc = "f_upload"
  /\ \E r \in {UploadSuccess(Bucket[call.arg]),
               UploadFailure("upload failed")} :
       /\ IF r.success THEN NoFault ELSE Fault
       /\ body' = [body EXCEPT !.result = r]
       /\ Deliver(UpdateProgress(progress,
            [status |-> IF r.success THEN "completed" ELSE "error",
             endTime |-> Now, completedFiles |-> 1,
             percentage |-> Num(100)]))
  /\ pc' = "f_emit"
  /\ UNCHANGED <<instVars, progressCallback, registered, config, conn, errorCalls, call, callNo, attempt, lastError,
                 invocations, waits, outcome, tasks, gen, adapterCalls,
                 isUploading>>

\* this.eventManager.emit("fileComplete", ...); return result
FileEmit ==
  /\ pc = "f_emit"
  /\ Deliver(EmitFileComplete(progress))
  /\ Return(body.result)
  /\ UNCHANGED <<instVars, progressCallback, registered, config, conn, errorCalls, call, callNo, tasks, gen, body,
                 adapterCalls, isUploading, faults>>

\* ------------------------------------------------------ migrateDirectory
\* S3Service.fetchFilesInBatches: const batchSize = 5
S3BatchSize == 5

BatchKeys(keys, first) ==
  {keys[j] : j \in first..Min(first + S3BatchSize - 1, Len(keys))}

DirConnections ==
  /\ pc = "d_connections"
  /\ IF S3Guards # "ok"
       THEN /\ Catch(S3Guards)
            /\ UNCHANGED adapterCalls
       ELSE /\ adapterCalls' = [adapterCalls EXCEPT !.list = @ + 1]
            /\ pc' = "d_list"
            /\ UNCHANGED retryVars
  /\ UNCHANGED <<instVars, progressCallback, registered, config, conn, progress, snapshot, notified, errorCalls, call, callNo,
                 outcome, tasks, gen, body, isUploading, faults>>

\* "await this.s3Service.listFilesInS3Directory(directoryPath)" settles;
\* an empty listing throws, otherwise the preparing snapshot is sent.
DirListed ==
  /\ pc = "d_list"
  /\ \/ /\ Fault
        /\ Catch("ListObjectsV2 failed")
        /\ UNCHANGED <<instVars, emVars, body>>
     \/ /\ NoFault
        /\ LET fileKeys == Listing[call.arg]
           IN  IF Len(fileKeys) = 0
                 THEN /\ Catch("No files found in directory")
                      /\ UNCHANGED <<instVars, emVars, body>>
                 ELSE /\ Deliver(UpdateProgress(progress,
                           [totalFiles |-> Len(fileKeys),
                            completedFiles |-> 0, percentage |-> Num(0),
                            phase |-> "preparing", status |-> "preparing",
                            startTime |-> Now, currentFile |-> call.arg,
                            remainingFiles |-> Len(fileKeys),
                            totalBatches |->
                              CeilDiv(Len(fileKeys), config.batchSize)]))
                      /\ body' = [body EXCEPT !.keys = fileKeys]
                      /\ pc' = "d_wait1"
                      /\ UNCHANGED retryVars
  /\ UNCHANGED <<instVars, progressCallback, registered, config, conn, errorCalls, call, callNo, outcome, tasks, gen,
                 adapterCalls, isUploading>>

\* After the first 100 ms pause: the download-phase snapshot.
DirDownloadPhase ==
  /\ pc = "d_wait1"
  /\ Deliver(UpdateProgress(progress,
       [phase |-> "download", status |-> "downloading"]))
  /\ pc' = "d_wait2"
  /\ UNCHANGED <<instVars, progressCallback, registered, config, conn, errorCalls, call, callNo, attempt, lastError,
                 invocations, waits, outcome, tasks, gen, body, adapterCalls,
                 isUploading, faults>>

\* After the second pause fetchFilesInBatches starts its measuring pass
\* and sends the first GetObject.
DirFetchStart ==
  /\ pc = "d_wait2"
  /\ body' = [body EXCEPT !.i = 1, !.total = 0]
  /\ pc' = "d_measure"
  /\ UNCHANGED <<instVars, progressCallback, registered, config, conn, progress, snapshot, notified, errorCalls, call, callNo,
                 attempt, lastError, invocations, waits, outcome, tasks, gen,
                 adapterCalls, isUploading, faults>>

\* Measuring pass: the response for key i arrives (or the send rejects);
\* after the last key setTotalBytes(total, total).
DirMeasure ==
  /\ pc = "d_measure"
  /\ \/ /\ Fault
        /\ Catch("GetObject failed")
        /\ UNCHANGED <<instVars, emVars, body>>
     \/ /\ NoFault
        /\ LET total == body.total + Bucket[body.keys[body.i]]
           IN  IF body.i < Len(body.keys)
                 THEN /\ body' = [body EXCEPT !.i = @ + 1, !.total = total]
                      /\ pc' = pc
                      /\ UNCHANGED emVars
                 ELSE /\ body' = [body EXCEPT !.i = 1, !.total = total]
                      /\ pc' = "d_batch"
                      /\ Deliver(SetTotalBytes(progress, total, total))
        /\ UNCHANGED retryVars
  /\ UNCHANGED <<instVars, progressCallback, registered, config, conn, errorCalls, call, callNo, outcome, tasks, gen,
                 adapterCalls, isUploading>>

\* One iteration of the batch loop up to its await: the batch snapshot,
\* then Promise.all(batch.map(key => this.fetchFileFromS3(key))).
DirBatchStart ==
  /\ pc = "d_batch"
  /\ LET n == Len(body.keys)
         batch == BatchKeys(body.keys, body.i)
     IN  /\ Deliver(UpdateProgress(progress,
              [phase |-> "download",
               currentFile |->
                 "Batch " \o ToString(((body.i - 1) \div S3BatchSize) + 1)
                   \o "/" \o ToString(CeilDiv(n, S3BatchSize))]))
         /\ gen' = gen + 1
         /\ tasks' = tasks \cup {NewTask(k, gen + 1) : k \in batch}
         /\ body' = [body EXCEPT !.gen = gen + 1]
         /\ adapterCalls' = [adapterCalls EXCEPT !.fetch = @ + Cardinality(batch),
                                            !.batches = @ + 1]
  /\ pc' = "d_fetch"
  /\ UNCHANGED <<instVars, progressCallback, registered, config, conn, errorCalls, call, callNo, attempt, lastError,
                 invocations, waits, outcome, isUploading, faults>>

\* A batch that settles with whatever was fetched when one fetch fails.
DirBatchSettledPartial ==
  /\ pc = "d_fetch"
  /\ \/ \E t \in Live :
          /\ t.st = "failed"
          /\ tasks' = (tasks \ Live) \cup Detach(Live \ {t})
          /\ body' = [body EXCEPT !.results =
                        SelectSeq(body.keys, LAMBDA k : k # t.key)]
          /\ pc' = "d_wait3"
     \/ /\ \A t \in Live : Finished(t)
        /\ tasks' = tasks \ Live
        /\ LET next == body.i + S3BatchSize
               done == [j \in 1..Min(next - 1, Len(body.keys)) |-> body.keys[j]]
           IN  /\ body' = [body EXCEPT !.i = next, !.results = done]
               /\ pc' = IF next <= Len(body.keys) THEN "d_batch" ELSE "d_wait3"
  /\ UNCHANGED retryVars
  /\ UNCHANGED <<instVars, progressCallback, registered, config, conn, progress, snapshot, notified, errorCalls, call, callNo,
                 outcome, gen, adapterCalls, isUploading, faults>>

\* Promise.all settles: rejected by the first fetch that fails (the other
\* fetches keep running), fulfilled when every fetch of the batch is done.
DirBatchSettled ==
  /\ pc = "d_fetch"
  /\ \/ \E t \in Live :
          /\ t.st = "failed"
          /\ tasks' = (tasks \ Live) \cup Detach(Live \ {t})
          /\ Catch(t.err)
          /\ UNCHANGED body
     \/ /\ \A t \in Live : Finished(t)
        /\ tasks' = tasks \ Live
        /\ LET next == body.i + S3BatchSize
               done == [j \in 1..Min(next - 1, Len(body.keys)) |-> body.keys[j]]
           IN  /\ body' = [body EXCEPT !.i = next, !.results = done]
               /\ pc' = IF next <= Len(body.keys) THEN "d_batch" ELSE "d_wait3"
        /\ UNCHANGED retryVars
  /\ UNCHANGED <<instVars, progressCallback, registered, config, conn, progress, snapshot, notified, errorCalls, call, callNo,
                 outcome, gen, adapterCalls, isUploading, faults>>

\* After the 500 ms pause: the upload-phase snapshot.
DirUploadPhase ==
  /\ pc = "d_wait3"
  /\ Deliver(UpdateProgress(progress,
       [phase |-> "upload", status |-> "uploading"]))
  /\ pc' = "d_wait4"
  /\ UNCHANGED <<instVars, progressCallback, registered, config, conn, errorCalls, call, callNo, attempt, lastError,
                 invocations, waits, outcome, tasks, gen, body, adapterCalls,
                 isUploading, faults>>

\* uploadDirectoryToStoracha is entered: the in-progress guard, then the
\* client's first snapshot when it has an EventManager.
UploadDirectoryEnter(nextPc, files) ==
  /\ adapterCalls' = [adapterCalls EXCEPT !.upload = @ + 1, !.files = files]
  /\ IF isUploading
       THEN /\ body' = [body EXCEPT
                          !.result = UploadFailure("Upload already in progress")]
            /\ UNCHANGED <<isUploading, emVars>>
       ELSE /\ isUploading' = TRUE
            /\ body' = body
            /\ IF ClientEventManager
                 THEN Deliver(UpdateProgress(progress,
                        [phase |-> "upload", uploadedBytes |-> 0,
                         totalUploadBytes |-> SumSizes(files),
                         currentFile |-> "Starting directory upload...",
                         totalFiles |-> Len(files), completedFiles |-> 0,
                         percentage |-> Num(0), uploadSpeed |-> 0]))
                 ELSE UNCHANGED emVars
  /\ pc' = nextPc

\* uploadDirectoryToStoracha settles: success or the caught failure, the
\* client's last snapshot when it has an EventManager, and the finally.
UploadDirectorySettle(nextPc, files) ==
  /\ IF body.result.status # "none"
       THEN UNCHANGED <<body, isUploading, emVars, faults>>
       ELSE /\ isUploading' = FALSE
            /\ \/ /\ NoFault
                  /\ body' = [body EXCEPT
                                !.result = UploadSuccess(SumSizes(files))]
                  /\ IF ClientEventManager
                       THEN Deliver(UpdateProgress(progress,
                              [phase |-> "upload", status |-> "completed",
                               uploadedBytes |-> SumSizes(files),
                               totalUploadBytes |-> SumSizes(files),
                               percentage |-> Num(100), uploadSpeed |-> 0,
                               currentFile |-> "Upload complete!",
                               completedFiles |-> Len(files)]))
                       ELSE UNCHANGED emVars
               \/ /\ Fault
                  /\ body' = [body EXCEPT
                                !.result = UploadFailure("upload failed")]
                  /\ IF ClientEventManager
                       THEN Deliver(UpdateProgress(progress,
                              [phase |-> "upload",
                               currentFile |-> "Upload failed!",
                               errors |-> <<[file |-> "directory",
                                             error |-> "upload failed"]>>]))
                       ELSE UNCHANGED emVars
  /\ pc' = nextPc

DirUploadEnter ==
  /\ pc = "d_wait4"
  /\ UploadDirectoryEnter("d_upload", body.results)
  /\ UNCHANGED <<instVars, progressCallback, registered, config, conn, errorCalls, call, callNo, attempt, lastError,
                 invocations, waits, outcome, tasks, gen, faults>>

DirUploadSettled ==
  /\ pc = "d_upload"
  /\ UploadDirectorySettle("d_final", body.results)
  /\ UNCHANGED <<instVars, progressCallback, registered, config, conn, errorCalls, call, callNo, attempt, lastError,
                 invocations, waits, outcome, tasks, gen, adapterCalls>>

\* The final updateProgress of migrateDirectory; return result.
DirFinal ==
  /\ pc = "d_final"
  /\ Deliver(UpdateProgress(progress,
       [completedFiles |-> Len(body.keys), percentage |-> Num(100),
        phase |-> "preparing",
        status |-> IF body.result.success THEN "completed" ELSE "error",
        endTime |-> Now, remainingFiles |-> 0]))
  /\ Return(body.result)
  /\ UNCHANGED <<instVars, progressCallback, registered, config, conn, errorCalls, call, callNo, tasks, gen, body,
                 adapterCalls, isUploading, faults>>

\* -------------------------------------------------------- migrateMongoDb
\* ConnectionManager builds MongoDBService without an EventManager, so the
\* service's own progress updates are skipped.
MongoGuards ==
  IF conn.mongo = "none" THEN "MongoDB connection not initialized"
  ELSE IF ~conn.storacha THEN "Storacha connection not initialized"
  ELSE "ok"

MongoConnections ==
  /\ pc = "m_connections"
  /\ IF MongoGuards # "ok"
       THEN /\ Catch(MongoGuards)
            /\ UNCHANGED <<instVars, emVars, body, adapterCalls>>
       ELSE /\ Deliver(UpdateProgress(progress,
                 [phase |-> "preparing", status |-> "preparing",
                  startTime |-> Now,
                  currentFile |-> IF call.arg = "undefined"
                                    THEN "MongoDB collections" ELSE call.arg,
                  totalFiles |-> 0, completedFiles |-> 0]))
            /\ IF call.arg = "undefined"
                 THEN /\ adapterCalls' = [adapterCalls EXCEPT !.list = @ + 1]
                      /\ body' = body
                      /\ pc' = "m_list"
                 ELSE /\ adapterCalls' = adapterCalls
                      /\ body' = [body EXCEPT !.keys = <<call.arg>>]
                      /\ pc' = "m_total"
            /\ UNCHANGED retryVars
  /\ UNCHANGED <<instVars, progressCallback, registered, config, conn, errorCalls, call, callNo, outcome, tasks, gen,
                 isUploading, faults>>

\* "await mongodb.listCollections()" settles.
MongoListed ==
  /\ pc = "m_list"
  /\ IF conn.mongo = "unconnected"
       THEN /\ Catch("MongoDB database not initialized")
            /\ UNCHANGED <<instVars, body, faults>>
       ELSE \/ /\ Fault
               /\ Catch("listCollections failed")
               /\ UNCHANGED body
            \/ /\ NoFault
               /\ \E cols \in CollectionLists :
                    body' = [body EXCEPT !.keys = cols]
               /\ pc' = "m_total"
               /\ UNCHANGED retryVars
  /\ UNCHANGED <<instVars, progressCallback, registered, config, conn, progress, snapshot, notified, errorCalls, call, callNo,
                 outcome, tasks, gen, adapterCalls, isUploading>>

\* The emptiness check and the snapshot that announces totalFiles.
MongoTotal ==
  /\ pc = "m_total"
  /\ IF Len(body.keys) = 0
       THEN /\ Catch("No collections found to export")
            /\ UNCHANGED <<instVars, emVars, body>>
       ELSE /\ Deliver(UpdateProgress(progress,
                 [totalFiles |-> Len(body.keys),
                  remainingFiles |-> Len(body.keys)]))
            /\ body' = [body EXCEPT !.i = 1]
            /\ pc' = "m_loop"
            /\ UNCHANGED retryVars
  /\ UNCHANGED <<instVars, progressCallback, registered, config, conn, errorCalls, call, callNo, outcome, tasks, gen,
                 adapterCalls, isUploading, faults>>

\* Head of the for loop over the collections: the download snapshot of the
\* next collection, or after the last one the check that something was
\* exported and the upload-phase snapshot.
MongoLoop ==
  /\ pc = "m_loop"
  /\ IF body.i <= Len(body.keys)
       THEN /\ Deliver(UpdateProgress(progress,
                 [phase |-> "download", status |-> "downloading",
                  currentFile |-> body.keys[body.i]]))
            /\ adapterCalls' = [adapterCalls EXCEPT !.fetch = @ + 1]
            /\ pc' = "m_export"
            /\ UNCHANGED retryVars
       ELSE IF Len(body.results) = 0
         THEN /\ Catch("No collections were successfully exported")
              /\ UNCHANGED <<instVars, emVars, adapterCalls>>
         ELSE /\ Deliver(UpdateProgress(progress,
                   [phase |-> "upload", status |-> "uploading"]))
              /\ pc' = "m_wait"
              /\ UNCHANGED <<instVars, retryVars, adapterCalls>>
  /\ UNCHANGED <<instVars, progressCallback, registered, config, conn, errorCalls, call, callNo, outcome, tasks, gen,
                 body, isUploading, faults>>

\* "await mongodb.fetchCollection(collection)" settles: the export is
\* counted, or the catch block of the loop emits the error event.
MongoExported ==
  /\ pc = "m_export"
  /\ LET collection == body.keys[body.i]
         failed(m) ==
           /\ progress' = EmitError(progress, m, collection)
           /\ errorCalls' = Append(errorCalls, [error |-> m])
           /\ body' = [body EXCEPT !.i = @ + 1]
           /\ UNCHANGED <<instVars, snapshot, notified>>
     IN  IF conn.mongo = "unconnected"
           THEN failed("MongoDB database not initialized") /\ NoFault
           ELSE \/ failed("export failed") /\ Fault
                \/ /\ NoFault
                   /\ body' = [body EXCEPT
                                 !.i = @ + 1,
                                 !.results = Append(@, collection),
                                 !.completed = @ + 1]
                   /\ Deliver(UpdateProgress(progress,
                        [completedFiles |-> body.completed + 1,
                         percentage |->
                           Percent(body.completed + 1, Len(body.keys)),
                         remainingFiles |->
                           Len(body.keys) - (body.completed + 1)]))
                   /\ UNCHANGED errorCalls
  /\ pc' = "m_loop"
  /\ UNCHANGED <<instVars, progressCallback, registered, config, conn, call, callNo, attempt, lastError, invocations,
                 waits, outcome, tasks, gen, adapterCalls, isUploading>>

MongoUploadEnter ==
  /\ pc = "m_wait"
  /\ UploadDirectoryEnter("m_upload", body.results)
  /\ UNCHANGED <<instVars, progressCallback, registered, config, conn, errorCalls, call, callNo, attempt, lastError,
                 invocations, waits, outcome, tasks, gen, faults>>

MongoUploadSettled ==
  /\ pc = "m_upload"
  /\ UploadDirectorySettle("m_final", body.results)
  /\ UNCHANGED <<instVars, progressCallback, registered, config, conn, errorCalls, call, callNo, attempt, lastError,
                 invocations, waits, outcome, tasks, gen, adapterCalls>>

\* The final updateProgress of migrateMongoDb; return result.
MongoFinal ==
  /\ pc = "m_final"
  /\ Deliver(UpdateProgress(progress,
       [completedFiles |-> Len(body.results), percentage |-> Num(100),
        phase |-> "completed",
        status |-> IF body.result.success THEN "completed" ELSE "error",
        endTime |-> Now, remainingFiles |-> 0]))
  /\ Return(body.result)
  /\ UNCHANGED <<instVars, progressCallback, registered, config, conn, errorCalls, call, callNo, tasks, gen, body,
                 adapterCalls, isUploading, faults>>

Next ==
  \/ Initialize
  \/ Close
  \/ MigrateFile
  \/ MigrateDirectory
  \/ MigrateMongoDb
  \/ Loop
  \/ BackoffDone
  \/ \E t \in tasks : TaskResponse(t)
  \/ \E t \in tasks : TaskChunk(t)
  \/ \E t \in tasks : TaskForgotten(t)
  \/ FilePrepare
  \/ FileConnections
  \/ FileFetched
  \/ FileUploaded
  \/ FileEmit
  \/ DirConnections
  \/ DirListed
  \/ DirDownloadPhase
  \/ DirFetchStart
  \/ DirMeasure
  \/ DirBatchStart
  \/ DirBatchSettled
  \/ DirUploadPhase
  \/ DirUploadEnter
  \/ DirUploadSettled
  \/ DirFinal
  \/ MongoConnections
  \/ MongoListed
  \/ MongoTotal
  \/ MongoLoop
  \/ MongoExported
  \/ MongoUploadEnter
  \/ MongoUploadSettled
  \/ MongoFinal

Spec == Init /\ [][Next]_vars

\* withRetry on its own, over an arbitrary operation.
NextRetry ==
  \/ WithRetry
  \/ Loop
  \/ BackoffDone
  \/ OperationThrows
  \/ OperationReturns

RetrySpec == InitRetry /\ [][NextRetry]_vars

\* ------------------------------------------ the EventManager on its own
\* The EventManager driven directly through its public methods, by any
\* code that holds one (the Engine, a service, or a caller of the library).
engineVars == <<config, conn, callNo, pc, attempt, lastError, invocations,
                waits, outcome, tasks, gen, body, adapterCalls, isUploading,
                faults>>

Subscribers == {"a", "b"}

\* Partial<MigrationProgress> values handed to updateProgress.
ProgressUpdates ==
  {NoUpdate,
   [totalFiles |-> 2, remainingFiles |-> 2],
   [phase |-> "download", status |-> "downloading"],
   [processedBytes |-> 0 - ChunkBytes, percentage |-> Num(150)],
   [status |-> "completed"]}

\* The method of the EventManager called last, with its first argument.
Called(method, arg) == call' = [kind |-> method, arg |-> arg, context |-> <<>>]

\* EventManager.onProgress / StorachaMigrator.onProgress
OnProgress ==
  /\ Len(registered) < MaxRegistrations
  /\ \E cb \in Subscribers :
       /\ progressCallback' = cb
       /\ registered' = Append(registered, cb)
       /\ Called("onProgress", cb)
  /\ UNCHANGED <<instVars, engineVars, progress, snapshot, notified, errorCalls>>

CallUpdateProgress ==
  /\ \E u \in ProgressUpdates :
       /\ Deliver(UpdateProgress(progress, u))
       /\ Called("updateProgress", "update")
  /\ UNCHANGED <<instVars, engineVars, progressCallback, registered, errorCalls>>

CallSetTotalBytes ==
  /\ \E bytes \in {0, Bucket.a} :
       /\ Deliver(SetTotalBytes(progress, bytes, bytes))
       /\ Called("setTotalBytes", "downloadBytes")
  /\ UNCHANGED <<instVars, engineVars, progressCallback, registered, errorCalls>>

CallUpdateFileProgress ==
  /\ \E bytes \in {ChunkBytes, Bucket.a} :
       /\ Deliver(UpdateFileProgress(progress, "a", bytes, Bucket.a, "download"))
       /\ Called("updateFileProgress", "download")
  /\ UNCHANGED <<instVars, engineVars, progressCallback, registered, errorCalls>>

CallEmitFileComplete ==
  /\ progress.completedFiles < MaxEmits
  /\ Deliver(EmitFileComplete(progress))
  /\ Called("emit", "fileComplete")
  /\ UNCHANGED <<instVars, engineVars, progressCallback, registered, errorCalls>>

CallEmitError ==
  /\ progress.failedFiles < MaxEmits
  /\ progress' = EmitError(progress, "e1", "a")
  /\ errorCalls' = Append(errorCalls, [error |-> "e1"])
  /\ Called("emit", "error")
  /\ UNCHANGED <<instVars, engineVars, progressCallback, registered, snapshot, notified>>

InitEvents ==
  /\ InitWith({cfg \in Configs : cfg.maxAttempts = 1 /\ ~cfg.hasMongo
                                  /\ cfg.batchSize = S3BatchSize})
  /\ progressCallback = "undefined"
  /\ registered = <<>>
  /\ notified = <<>>

NextEvents ==
  \/ OnProgress
  \/ CallUpdateProgress
  \/ CallSetTotalBytes
  \/ CallUpdateFileProgress
  \/ CallEmitFileComplete
  \/ CallEmitError

EventSpec == InitEvents /\ [][NextEvents]_vars

\* ------------------- the EventManager of src/managers/EventManager.ts
\* JavaScript numbers: a rational <<n, d>> with d > 0, or one of the two
\* non-finite values that a division by zero produces.
NaN == <<0, 0>>
Infinity == <<1, 0>>
IsFinite(r) == r[2] # 0

\* x / y for integers x, y >= 0
JsDiv(x, y) ==
  IF y # 0 THEN Rat(x, y) ELSE IF x = 0 THEN NaN ELSE Infinity

\* p * q and p + q for non-negative numbers
JsMul(p, q) ==
  IF IsFinite(p) /\ IsFinite(q) THEN Rat(p[1] * q[1], p[2] * q[2])
  ELSE IF p = NaN \/ q = NaN \/ p = Num(0) \/ q = Num(0) THEN NaN
  ELSE Infinity

JsAdd(p, q) ==
  IF IsFinite(p) /\ IsFinite(q)
    THEN Rat(p[1] * q[2] + q[1] * p[2], p[2] * q[2])
  ELSE IF p = NaN \/ q = NaN THEN NaN
  ELSE Infinity

\* The initial value of the progress field.
WeightedInitialProgress ==
  [totalFiles |-> 0, completedFiles |-> 0, failedFiles |-> 0,
   percentage |-> Num(0), errors |-> <<>>, currentFile |-> "undefined",
   bytesUploaded |-> 0, totalBytes |-> 0, phase |-> "preparing",
   downloadProgress |-> Num(0), uploadProgress |-> Num(0),
   downloadedBytes |-> 0, uploadedBytes |-> 0,
   totalDownloadBytes |-> 0, totalUploadBytes |-> 0]

\* "total || 1"
OrOne(total) == IF total = 0 THEN 1 ELSE total

\* updateProgress: merge, the progress of the current phase, then the
\* average of the two phases weighted by their byte totals.
WeightedUpdateProgress(p, u) ==
  LET m == Merge(p, u)
      q == IF m.phase = "download"
             THEN [m EXCEPT !.downloadProgress =
                     JsMul(JsDiv(m.downloadedBytes, OrOne(m.totalDownloadBytes)),
                           Num(100))]
           ELSE IF m.phase = "upload"
             THEN [m EXCEPT !.uploadProgress =
                     JsMul(JsDiv(m.uploadedBytes, OrOne(m.totalUploadBytes)),
                           Num(100))]
           ELSE m
      downloadWeight == JsDiv(q.totalDownloadBytes,
                              q.totalDownloadBytes + q.totalUploadBytes)
      uploadWeight == JsDiv(q.totalUploadBytes,
                            q.totalDownloadBytes + q.totalUploadBytes)
  IN  [q EXCEPT !.percentage =
         JsAdd(JsMul(q.downloadProgress, downloadWeight),
               JsMul(q.uploadProgress, uploadWeight))]

WeightedUpdateFileProgress(p, fileKey, bytesProcessed, totalBytes, phase) ==
  LET q == IF phase = "download"
             THEN [p EXCEPT !.downloadedBytes = bytesProcessed,
                            !.totalDownloadBytes =
                               IF @ = 0 THEN totalBytes ELSE @]
             ELSE [p EXCEPT !.uploadedBytes = bytesProcessed,
                            !.totalUploadBytes =
                               IF @ = 0 THEN totalBytes ELSE @]
  IN  WeightedUpdateProgress(
        [q EXCEPT !.currentFile = fileKey, !.phase = phase], NoUpdate)

WeightedSetTotalBytes(p, downloadBytes, uploadBytes) ==
  WeightedUpdateProgress([p EXCEPT !.totalDownloadBytes = downloadBytes,
                                   !.totalUploadBytes = uploadBytes],
                         NoUpdate)

WeightedUpdates ==
  {NoUpdate, [phase |-> "download"], [phase |-> "upload"],
   [uploadedBytes |-> ChunkBytes]}

WeightedCallUpdateProgress ==
  /\ \E u \in WeightedUpdates :
       /\ Deliver(WeightedUpdateProgress(progress, u))
       /\ Called("updateProgress", "update")
  /\ UNCHANGED <<instVars, engineVars, progressCallback, registered, errorCalls>>

WeightedCallSetTotalBytes ==
  /\ \E d \in {0, Bucket.a}, u \in {0, Bucket.a} :
       /\ Deliver(WeightedSetTotalBytes(progress, d, u))
       /\ Called("setTotalBytes", "downloadBytes")
  /\ UNCHANGED <<instVars, engineVars, progressCallback, registered, errorCalls>>

WeightedCallUpdateFileProgress ==
  /\ \E k \in Keys, phase \in {"download", "upload"} :
     \E bytes \in {ChunkBytes, Bucket[k]} :
       /\ Deliver(WeightedUpdateFileProgress(progress, k, bytes, Bucket[k],
                                             phase))
       /\ Called("updateFileProgress", k)
  /\ UNCHANGED <<instVars, engineVars, progressCallback, registered, errorCalls>>

\* An EventManager of this kind, just constructed, with one subscriber.
InitWeighted ==
  /\ config \in {cfg \in Configs : cfg.maxAttempts = 1 /\ ~cfg.hasMongo
                                     /\ cfg.batchSize = S3BatchSize}
  /\ conn = [s3 |-> FALSE, storacha |-> FALSE, mongo |-> "none"]
  /\ progress = WeightedInitialProgress
  /\ snapshot = NoSnapshot
  /\ errorCalls = <<>>
  /\ call = NoCall
  /\ callNo = 0
  /\ pc = "idle"
  /\ attempt = 0
  /\ lastError = "none"
  /\ invocations = <<>>
  /\ waits = <<>>
  /\ outcome = [kind |-> "none"]
  /\ tasks = {}
  /\ gen = 0
  /\ body = NoBody
  /\ adapterCalls = NoAdapterCalls
  /\ isUploading = FALSE
  /\ faults = 0
  /\ Subscribed
  /\ InitInstances({"user@domain"})

NextWeighted ==
  \/ WeightedCallUpdateProgress
  \/ WeightedCallSetTotalBytes
  \/ WeightedCallUpdateFileProgress

WeightedSpec == InitWeighted /\ [][NextWeighted]_vars

\* ================================================================ claims
Threw(i) == invocations[i].result = "threw"
ThrowCount == Cardinality({i \in 1..Len(invocations) : Threw(i)})
Ended == pc = "idle" /\ outcome.kind \in {"returned", "raised"}
Delivered == snapshot.status # "none"

\* C1: migrateFile and migrateDirectory never raise: when every attempt of
\* the retried block threw, the call still resolves to an UploadResult
\* with success = false and a non-empty error.
C1_NoExceptionCrossesBoundary ==
  (Ended /\ call.kind \in {"file", "directory"}
         /\ \A i \in 1..Len(invocations) : Threw(i))
    => /\ outcome.kind = "returned"
       /\ outcome.value.success = FALSE
       /\ outcome.value.error \notin {"undefined", ""}

\* C2: an operation that throws on every invocation is invoked exactly
\* maxAttempts times, never more, and withRetry then raises an error that
\* carries the context, the attempt count and the last error's message.
C2_RetryExhaustion ==
  LET N == config.maxAttempts
      allThrew == \A i \in 1..Len(invocations) : Threw(i)
  IN  /\ Len(invocations) <= N
      /\ outcome.kind = "raised" =>
           /\ Len(invocations) = N
           /\ allThrew
           /\ outcome.value.context = call.context
           /\ outcome.value.attempts = N
           /\ outcome.value.last = invocations[N].value
      /\ (Len(invocations) = N /\ allThrew) =>
           /\ pc \in {"loop", "idle"}
           /\ pc = "idle" => outcome.kind = "raised"

C2_Witness ==
  /\ outcome.kind = "raised"
  /\ config.maxAttempts >= 3
  /\ Len(invocations) = config.maxAttempts
  /\ invocations[1].value # invocations[config.maxAttempts].value

\* C3: the k-th wait of withRetry is min(backoffMs * 2^(k-1), maxBackoffMs);
\* one wait follows each failed attempt but the last, so a call whose every
\* attempt failed has waited maxAttempts - 1 times.
C3_BackoffSchedule ==
  LET N == config.maxAttempts
  IN  /\ \A k \in 1..Len(waits) :
           /\ k < N
           /\ waits[k] = Min(config.backoffMs * (2 ^ (k - 1)),
                             config.maxBackoffMs)
      /\ Len(waits) = Min(ThrowCount, N - 1)
      /\ pc = "backoff" => ThrowCount < N
      /\ outcome.kind = "raised" => Len(waits) = N - 1

C3_Witness ==
  /\ outcome.kind = "raised"
  /\ config.maxAttempts >= 3
  /\ Len(waits) = config.maxAttempts - 1
  /\ waits[1] < waits[2]
  /\ waits[Len(waits)] = config.maxBackoffMs
  /\ config.backoffMs * (2 ^ (Len(waits) - 1)) > config.maxBackoffMs

\* C4: a successful invocation is the last one of its call: the operation
\* that first succeeds on attempt k has been invoked exactly k times,
\* withRetry has returned that attempt's result and invokes nothing more.
C4_NoRetryOnSuccess ==
  /\ \A i \in 1..Len(invocations) :
       invocations[i].result = "returned" =>
         /\ i = Len(invocations)
         /\ i <= config.maxAttempts
         /\ pc = "idle"
         /\ outcome = [kind |-> "returned", value |-> invocations[i].value]
  /\ outcome.kind = "returned" =>
       /\ Len(invocations) >= 1
       /\ invocations[Len(invocations)].result = "returned"

C4_Witness ==
  /\ outcome.kind = "returned"
  /\ Len(invocations) >= 2
  /\ Threw(1)
  /\ invocations[Len(invocations)].value = outcome.value

\* C5: within one migration call the percentages delivered to the progress
\* subscriber never decrease.
C5_MonotonicPercentage ==
  [][(Delivered /\ snapshot'.status # "none")
       => RatLeq(snapshot.percentage, snapshot'.percentage)]_vars

\* C6: the snapshot delivered by an update that sets status = completed
\* (the final update of a successful directory or database migration) has
\* percentage 100, remainingFiles 0 and estimatedTimeRemaining "Complete".
C6_TerminalConsistency ==
  (Ended /\ call.kind \in {"directory", "mongodb"} /\ Delivered
         /\ outcome.kind = "returned" /\ outcome.value.success)
    => /\ snapshot.status = "completed"
       /\ snapshot.percentage = Num(100)
       /\ snapshot.remainingFiles = 0
       /\ snapshot.estimatedTimeRemaining = "Complete"

\* C7: every delivered snapshot in which totalFiles is set satisfies
\* completedFiles + failedFiles + remainingFiles = totalFiles.
C7_FileCountInvariant ==
  (Delivered /\ snapshot.totalFiles > 0)
    => snapshot.completedFiles + snapshot.failedFiles
         + snapshot.remainingFiles = snapshot.totalFiles

PhaseRank(ph) ==
  CASE ph = "preparing" -> 0
    [] ph = "download" -> 1
    [] ph = "upload" -> 2
    [] ph \in {"completed", "error"} -> 3

\* C8: within one migration call the delivered phase never moves backwards
\* in the order preparing < download < upload < terminal.
C8_PhaseOrdering ==
  [][(Delivered /\ snapshot'.status # "none")
       => PhaseRank(snapshot.phase) <= PhaseRank(snapshot'.phase)]_vars

\* C9: migrateDirectory on a prefix that lists no keys returns
\* success = false with an error that mentions that no files were found,
\* and the Destination Adapter's upload is never called.
C9_EmptyListingContract ==
  (Ended /\ call.kind = "directory"
         /\ lastError = "No files found in directory")
    => /\ outcome.kind = "returned"
       /\ outcome.value.success = FALSE
       /\ outcome.value.error = "No files found in directory"
       /\ adapterCalls.upload = 0

\* C10: an empty listing is not retried: once the first attempt of
\* migrateDirectory has seen an empty listing, the Source Adapter's list
\* operation has been invoked exactly once in that call.
C10_EmptyListingNotRetried ==
  (call.kind = "directory" /\ Len(invocations) >= 1
     /\ invocations[1] = [result |-> "threw",
                          value |-> "No files found in directory"])
    => adapterCalls.list = 1

\* The collections whose export threw in the current attempt: those the
\* loop has gone past that are not among the exported files.
FailedExports ==
  {body.keys[j] : j \in 1..(body.i - 1)} \ {body.results[j] : j \in 1..Len(body.results)}
PartialExport ==
  /\ Ended /\ call.kind = "mongodb" /\ outcome.kind = "returned"
  /\ Len(body.results) < Len(body.keys)

\* C11: when some but not all exports of a migrateMongoDb call throw, the
\* other collections are still exported, the upload is called once with
\* exactly the exported units, and the final snapshot has completedFiles =
\* number of successful exports and failedFiles = number of failed exports
\* of the call.
C11_PartialBatchTolerance ==
  PartialExport
    => /\ adapterCalls.upload = 1
       /\ adapterCalls.files = body.results
       /\ body.i = Len(body.keys) + 1
       /\ snapshot.completedFiles = Len(body.results)
       /\ snapshot.failedFiles = Len(errorCalls)
       /\ Cardinality(FailedExports) <= Len(errorCalls)

IsPrefix(s, t) == Len(s) <= Len(t) /\ SubSeq(t, 1, Len(s)) = s

\* This step is the failure of one unit: an export that threw in
\* migrateMongoDb, or the upload of the file of migrateFile that failed.
UnitFailed ==
  \/ pc = "m_export" /\ pc' = "m_loop" /\ body'.results = body.results
  \/ pc = "f_upload" /\ pc' = "f_emit" /\ ~body'.result.success

\* C12: the errors list is append-only and exact: every step keeps the
\* entries already in errors, failedFiles and errors grow together, and
\* the failure of a unit adds exactly one to failedFiles and exactly one
\* entry to errors.
C12_ErrorsAppendOnlyExact ==
  [][/\ IsPrefix(progress.errors, progress'.errors)
     /\ Len(progress'.errors) - Len(progress.errors)
          = progress'.failedFiles - progress.failedFiles
     /\ UnitFailed => /\ progress'.failedFiles = progress.failedFiles + 1
                      /\ Len(progress'.errors) = Len(progress.errors) + 1]_vars

\* C13: upload failures are retried: when the single-unit upload of
\* migrateFile fails on every try (and no attempt failed before reaching
\* the upload), the upload has been attempted maxAttempts times by the
\* time the call reports the failure.
C13_UploadFailuresRetried ==
  (Ended /\ call.kind = "file" /\ ThrowCount = 0
         /\ outcome.kind = "returned" /\ ~outcome.value.success)
    => adapterCalls.upload = config.maxAttempts

\* C14: in migrateDirectory, when the fetch of one key of a batch failed
\* while another key of it was fetched, the attempt is not abandoned: the
\* block goes on towards the upload of the files that were fetched.
C14_PartialFetchStillUploads ==
  [][(/\ pc = "d_fetch" /\ pc' # pc
      /\ \E t \in Live : t.st = "failed"
      /\ \E t \in Live : Finished(t))
       => pc' \in {"d_batch", "d_wait3"}]_vars

\* C15: no cross-migration carryover: the first snapshot delivered by a
\* call that is not the first one on this Engine has percentage 0, every
\* byte counter 0, failedFiles 0 and an empty errors list.
C15_NoCarryover ==
  [][(callNo >= 2 /\ ~Delivered /\ snapshot'.status # "none")
       => /\ snapshot'.percentage = Num(0)
          /\ snapshot'.totalBytes = 0 /\ snapshot'.processedBytes = 0
          /\ snapshot'.bytesUploaded = 0
          /\ snapshot'.downloadedBytes = 0 /\ snapshot'.totalDownloadBytes = 0
          /\ snapshot'.uploadedBytes = 0 /\ snapshot'.totalUploadBytes = 0
          /\ snapshot'.failedFiles = 0 /\ snapshot'.errors = <<>>]_vars

\* C16: terminal immutability: once a snapshot with status completed or
\* error was delivered in a call, every later snapshot of that call has the
\* same status and the same file counters.
C16_TerminalImmutability ==
  [][(Delivered /\ snapshot.status \in {"completed", "error"}
        /\ snapshot'.status # "none")
       => /\ snapshot'.status = snapshot.status
          /\ snapshot'.totalFiles = snapshot.totalFiles
          /\ snapshot'.completedFiles = snapshot.completedFiles
          /\ snapshot'.failedFiles = snapshot.failedFiles
          /\ snapshot'.remainingFiles = snapshot.remainingFiles]_vars

\* C17: multiple progress subscribers: after onProgress(a) followed by
\* onProgress(b), an updateProgress call invokes both a and b, a first.
C17_MultipleSubscribers ==
  (call.kind = "updateProgress" /\ Len(registered) = 2
     /\ registered[1] # registered[2])
    => notified = registered

\* C18: the error subscriber is invoked once for each failed unit and is
\* given the error together with the key of the unit: every invocation
\* carries a fileKey, and a migrateFile whose upload failed has produced
\* exactly one invocation by the time it returns.
C18_ErrorSubscriberOncePerUnit ==
  /\ \A i \in 1..Len(errorCalls) : "fileKey" \in DOMAIN errorCalls[i]
  /\ (Ended /\ call.kind = "file" /\ outcome.kind = "returned"
        /\ ~outcome.value.success) => Len(errorCalls) = 1

\* C19: a fileComplete event increments completedFiles by one, and when
\* that makes completedFiles equal to totalFiles the snapshot delivered for
\* the event has status completed, phase completed, percentage 100 and
\* remainingFiles 0.
C19_FileCompleteForcesTerminal ==
  [][(call'.kind = "emit" /\ call'.arg = "fileComplete")
       => /\ progress'.completedFiles = progress.completedFiles + 1
          /\ (progress'.completedFiles = progress'.totalFiles
                /\ notified' # <<>>)
               => /\ snapshot'.status = "completed"
                  /\ snapshot'.phase = "completed"
                  /\ snapshot'.percentage = Num(100)
                  /\ snapshot'.remainingFiles = 0]_vars

\* C20: zero-division safety: the percentage of every delivered snapshot
\* is a finite number, and a phase whose byte total is 0 counts as 0 %.
C20_ZeroDivisionSafety ==
  snapshot # NoSnapshot
    => /\ IsFinite(snapshot.percentage)
       /\ snapshot.totalDownloadBytes = 0 => snapshot.downloadProgress = Num(0)
       /\ snapshot.totalUploadBytes = 0 => snapshot.uploadProgress = Num(0)

\* The progress of one phase in percent, and the average of the two
\* phases weighted by their byte totals.
PhaseProgress(bytes, total) ==
  IF total = 0 THEN Num(0) ELSE Percent(bytes, total)
Blend(dp, up, totalDown, totalUp) ==
  Rat(dp[1] * totalDown * up[2] + up[1] * totalUp * dp[2],
      dp[2] * up[2] * (totalDown + totalUp))

\* C21: weighted blend: after every updateProgress the percentage is
\* downloadProgress * totalDownloadBytes / (totalDownloadBytes +
\* totalUploadBytes) + uploadProgress * totalUploadBytes / (the same sum).
C21_WeightedBlend ==
  (Delivered /\ snapshot.totalDownloadBytes + snapshot.totalUploadBytes > 0)
    => snapshot.percentage =
         Blend(PhaseProgress(snapshot.downloadedBytes, snapshot.totalDownloadBytes),
               PhaseProgress(snapshot.uploadedBytes, snapshot.totalUploadBytes),
               snapshot.totalDownloadBytes, snapshot.totalUploadBytes)

WellFormed(r) ==
  /\ ~r.success => r.error \notin {"undefined", ""}
  /\ r.cid # "undefined" <=> r.success
  /\ r.url # "undefined" <=> r.success

ChunkStep(t) ==
  /\ t \in tasks /\ t.st = "streaming"
  /\ \E u \in tasks' : u.key = t.key /\ u.gen = t.gen /\ u.received > t.received
Measured == SumSizes(Listing[call.arg])

\* C23: two-pass measurement: in migrateDirectory every per-file download
\* progress update of the call's fetches is delivered with the download and
\* upload totals already set to the measured size of all listed keys, and
\* no download progress update changes totalDownloadBytes.
C23_TwoPassMeasurement ==
  [][/\ (call.kind = "directory" /\ \E t \in Live : ChunkStep(t))
          => /\ pc = "d_fetch"
             /\ snapshot'.totalDownloadBytes = Measured
             /\ snapshot'.totalUploadBytes = Measured
             /\ snapshot'.totalBytes = 2 * Measured
     /\ (call.kind = "directory" /\ \E t \in tasks : ChunkStep(t))
          => progress'.totalDownloadBytes = progress.totalDownloadBytes]_vars
C23_Witness ==
  /\ call.kind = "directory" /\ call.arg = "two" /\ pc = "d_fetch"
  /\ Delivered /\ snapshot.downloadedBytes = ChunkBytes
  /\ snapshot.totalDownloadBytes = Bucket.a + Bucket.b
  /\ snapshot.totalBytes = 2 * (Bucket.a + Bucket.b)

\* The fetches of the current call that were sent and have not settled.
InFlight ==
  {t \in Live : t.st = "sent" \/ (t.st = "streaming" /\ t.received < t.size)}

\* C24: concurrency limit: during migrateDirectory the number of Source
\* Adapter fetches in flight at the same time never exceeds the configured
\* batch.concurrency.
C24_ConcurrencyLimit ==
  call.kind = "directory" => Cardinality(InFlight) <= config.concurrency

\* C25: close() releases every adapter connection, also after a migration
\* call that threw and also when closing one of the connections fails:
\* once close() has ended, the source, destination and database accessors
\* all report "not initialized".
C25_CloseReleasesAll ==
  (call.kind = "close" /\ pc = "idle")
    => /\ ~conn.s3 /\ ~conn.storacha /\ conn.mongo = "none"
       /\ S3Guards = "S3 connection not initialized"
       /\ MongoGuards = "MongoDB connection not initialized"

\* -------------------------------------- several Engines in one process
\* generateRandomName: `${baseNames[randomIndex]}-${Date.now()}`
GenerateRandomName(base, t) == <<base, t>>

\* A createUniqueName that returns the first name it generates.
CreateUniqueNameUnchecked(used, draws) == draws[1]

\* createUniqueName: names are generated until one is not in the used set;
\* draws is the stream of names generateRandomName produces.
CreateUniqueName(used, draws) ==
  draws[CHOOSE k \in 1..Len(draws) :
          /\ draws[k] \notin used
          /\ \A j \in 1..(k - 1) : draws[j] \in used]

\* StorachaClient.createNewStorachaSpace: initializeClient reads
\* process.env.STORACHA_EMAIL; every error becomes a failure response.
CreateNewStorachaSpace(spaceName, email, created) ==
  IF email = "undefined"
    THEN [success |-> FALSE, did |-> "undefined", name |-> "undefined",
          error |-> "STORACHA_EMAIL environment variable is not set"]
    ELSE IF created
      THEN [success |-> TRUE, did |-> "did", name |-> spaceName,
            error |-> "undefined"]
      ELSE [success |-> FALSE, did |-> "undefined", name |-> "undefined",
            error |-> "createSpace failed"]

\* The streams of names generateRandomName can produce at this time for a
\* call of createUniqueName that ends: every name but the last is used.
Draws ==
  {d \in UNION {[1..n -> {GenerateRandomName(b, now) : b \in BaseNames}] :
                  n \in 1..MaxDraws} :
     /\ d[Len(d)] \notin usedNames
     /\ \A j \in 1..(Len(d) - 1) : d[j] \in usedNames}

\* StorachaMigrator.initialize, on instance i
InitializeEngine(i) ==
  /\ ~engines[i].initialized
  /\ engines' = [engines EXCEPT ![i].initialized = TRUE]
  /\ alone' = [alone EXCEPT ![i].engine.initialized = TRUE]
  /\ UNCHANGED <<usedNames, now, env, uploads>>

\* Instance i's migration code calls its own eventManager.updateProgress.
EngineUpdateProgress(i, u) ==
  /\ engines[i].initialized
  /\ engines[i].progress.status # "completed"
  /\ LET p == UpdateProgress(engines[i].progress, u)
         q == UpdateProgress(alone[i].engine.progress, u)
     IN  /\ engines' = [engines EXCEPT ![i].progress = p, ![i].snapshot = p]
         /\ alone' = [alone EXCEPT ![i].engine.progress = q,
                                   ![i].engine.snapshot = q]
  /\ UNCHANGED <<usedNames, now, env, uploads>>

\* StorachaMigrator.createSpace on instance i. The operation handed to
\* withRetry never throws once the instance is initialized, so it runs
\* once.
CreateSpace(i) ==
  /\ engines[i].initialized
  /\ \E d \in Draws, created \in BOOLEAN :
       LET name == CreateUniqueName(usedNames, d)
           soloName == CreateUniqueName(alone[i].usedNames, d)
       IN  /\ usedNames' = usedNames \cup {name}
           /\ engines' = [engines EXCEPT
                            ![i].names = Append(@, name),
                            ![i].space =
                              CreateNewStorachaSpace(name, env, created)]
           /\ alone' = [alone EXCEPT
                          ![i].usedNames = @ \cup {soloName},
                          ![i].engine.names = Append(@, soloName),
                          ![i].engine.space =
                            CreateNewStorachaSpace(soloName, env, created)]
  /\ UNCHANGED <<now, env, uploads>>

\* A millisecond passes.
Tick ==
  /\ now < MaxClock
  /\ now' = now + 1
  /\ UNCHANGED <<engines, usedNames, env, alone, uploads>>

InitProcess ==
  /\ config \in {cfg \in Configs : cfg.maxAttempts = 1 /\ ~cfg.hasMongo
                                     /\ cfg.batchSize = S3BatchSize}
  /\ conn = [s3 |-> FALSE, storacha |-> FALSE, mongo |-> "none"]
  /\ progress = InitializeProgress
  /\ snapshot = NoSnapshot
  /\ errorCalls = <<>>
  /\ call = NoCall
  /\ callNo = 0
  /\ pc = "idle"
  /\ attempt = 0
  /\ lastError = "none"
  /\ invocations = <<>>
  /\ waits = <<>>
  /\ outcome = [kind |-> "none"]
  /\ tasks = {}
  /\ gen = 0
  /\ body = NoBody
  /\ adapterCalls = NoAdapterCalls
  /\ isUploading = FALSE
  /\ faults = 0
  /\ Subscribed
  /\ InitInstances({"undefined", "user@domain"})

EngineUpdates ==
  {[status |-> "downloading", phase |-> "download"],
   [status |-> "completed"]}

NextProcess ==
  \/ \E i \in Instances :
       InitializeEngine(i)
         /\ UNCHANGED <<engineVars, call, errorCalls, progress, snapshot,
                         progressCallback, registered, notified>>
  \/ \E i \in Instances, u \in EngineUpdates :
       EngineUpdateProgress(i, u)
         /\ UNCHANGED <<engineVars, call, errorCalls, progress, snapshot,
                         progressCallback, registered, notified>>
  \/ \E i \in Instances :
       CreateSpace(i)
         /\ UNCHANGED <<engineVars, call, errorCalls, progress, snapshot,
                         progressCallback, registered, notified>>
  \/ Tick /\ UNCHANGED <<engineVars, call, errorCalls, progress, snapshot,
                         progressCallback, registered, notified>>

ProcessSpec == InitProcess /\ [][NextProcess]_vars

\* C26: whatever the interleaving, each Engine instance's snapshots and
\* results are those it would have produced running alone on the same
\* inputs (nothing one instance writes is read by another).
C26_InstancesDoNotInterfere ==
  \A i \in Instances : engines[i] = alone[i].engine

\* The four snapshots C27 lists for the 1000-byte file "a" fetched in two
\* chunks of 500 bytes.
EndToEndSnapshots(s) ==
  \/ /\ s.phase = "download" /\ s.downloadedBytes = ChunkBytes
     /\ s.totalDownloadBytes = Bucket.a /\ s.percentage = Num(50)
  \/ /\ s.phase = "download" /\ s.downloadedBytes = Bucket.a
     /\ s.totalDownloadBytes = Bucket.a /\ s.percentage = Num(100)
  \/ /\ s.phase = "upload" /\ s.uploadedBytes = Bucket.a
     /\ s.totalUploadBytes = Bucket.a /\ s.percentage = Num(100)
  \/ s.status = "completed"

\* C27: migrating the 1000-byte file "a", with no adapter fault, delivers
\* only the snapshots (download 500/1000, 50%), (download 1000/1000, 100%),
\* (upload 1000/1000, 100%) and completed, and returns success = true with
\* a cid and a url.
C27_EndToEndSingleFile ==
  (callNo = 1 /\ call.kind = "file" /\ call.arg = "a" /\ faults = 0)
    => /\ Delivered => EndToEndSnapshots(snapshot)
       /\ (Ended /\ outcome.kind = "returned")
            => /\ outcome.value.success
               /\ outcome.value.cid # "undefined"
               /\ outcome.value.url # "undefined"

\* C28: every delivered snapshot has completedFiles <= totalFiles, and
\* after a successful migrateFile (totalFiles = 1) completedFiles is 1.
C28_CompletedWithinTotal ==
  /\ (call.kind \in {"file", "directory", "mongodb"} /\ Delivered)
       => snapshot.completedFiles <= snapshot.totalFiles
  /\ (call.kind = "file" /\ Ended /\ outcome.kind = "returned"
        /\ outcome.value.success /\ Delivered)
       => snapshot.completedFiles = 1

\* C29: migrateFile emits fileComplete only when the upload result has
\* success = true; when it has success = false, completedFiles stays 0 and
\* the failure is recorded in failedFiles and errors.
C29_FileCompleteOnlyOnSuccess ==
  (call.kind = "file" /\ Ended /\ outcome.kind = "returned"
     /\ ~outcome.value.success)
    => /\ progress.completedFiles = 0
       /\ progress.failedFiles >= 1
       /\ Len(progress.errors) >= 1

\* C30: while the files of one batch of migrateDirectory are fetched
\* concurrently, each chunk callback delivers a downloadedBytes that is
\* not below the one delivered before it.
C30_DownloadedBytesMonotone ==
  [][(call.kind = "directory" /\ pc = "d_fetch" /\ Delivered
        /\ \E t \in Live : ChunkStep(t))
       => snapshot'.downloadedBytes >= snapshot.downloadedBytes]_vars

\* ------------------------------------------- one call, fairly scheduled
\* The values whose change marks a step of the call or of a fetch.
position ==
  <<pc, attempt, callNo, gen, Len(invocations), body.i, Len(body.results),
    conn, faults,
    {<<t.key, t.gen, t.st, t.received, t.live>> : t \in tasks}>>

\* One migration call is made on the Engine, and at most one adapter call
\* of it fails.
SingleCall == callNo' <= 1 /\ faults' <= 1

NextLive ==
  \/ Initialize /\ SingleCall
  \/ Close /\ SingleCall
  \/ MigrateFile /\ SingleCall
  \/ MigrateDirectory /\ SingleCall
  \/ MigrateMongoDb /\ SingleCall
  \/ Loop /\ SingleCall
  \/ BackoffDone /\ SingleCall
  \/ (\E t \in tasks : TaskResponse(t)) /\ SingleCall
  \/ (\E t \in tasks : TaskChunk(t)) /\ SingleCall
  \/ (\E t \in tasks : TaskForgotten(t)) /\ SingleCall
  \/ FilePrepare /\ SingleCall
  \/ FileConnections /\ SingleCall
  \/ FileFetched /\ SingleCall
  \/ FileUploaded /\ SingleCall
  \/ FileEmit /\ SingleCall
  \/ DirConnections /\ SingleCall
  \/ DirListed /\ SingleCall
  \/ DirDownloadPhase /\ SingleCall
  \/ DirFetchStart /\ SingleCall
  \/ DirMeasure /\ SingleCall
  \/ DirBatchStart /\ SingleCall
  \/ DirBatchSettled /\ SingleCall
  \/ DirUploadPhase /\ SingleCall
  \/ DirUploadEnter /\ SingleCall
  \/ DirUploadSettled /\ SingleCall
  \/ DirFinal /\ SingleCall
  \/ MongoConnections /\ SingleCall
  \/ MongoListed /\ SingleCall
  \/ MongoTotal /\ SingleCall
  \/ MongoLoop /\ SingleCall
  \/ MongoExported /\ SingleCall
  \/ MongoUploadEnter /\ SingleCall
  \/ MongoUploadSettled /\ SingleCall
  \/ MongoFinal /\ SingleCall

\* Every adapter call eventually returns or throws and the event loop runs
\* every continuation that is ready: a step that can be taken is taken.
LiveSpec == Init /\ [][NextLive]_vars /\ WF_position(NextLive)

\* C31: every migrateFile, migrateDirectory and migrateMongoDb call ends:
\* its body is executed at most maxAttempts times, and a call that has
\* started eventually returns a result or raises.
C31_CallsTerminate ==
  /\ [](call.kind \in {"file", "directory", "mongodb"}
          => Len(invocations) <= config.maxAttempts)
  /\ (pc # "idle") ~> Ended
C31_Witness ==
  /\ Ended /\ call.kind = "mongodb" /\ outcome.kind = "returned"
  /\ config.maxAttempts = 2 /\ Len(invocations) = 2

\* C32: whatever updateProgress is given, also a negative byte count or a
\* percentage above 100, the snapshot handed to the subscriber has a
\* percentage within 0..100 and no negative byte counter.
C32_InputsClamped ==
  Delivered
    => /\ RatLeq(Num(0), snapshot.percentage)
       /\ RatLeq(snapshot.percentage, Num(100))
       /\ snapshot.processedBytes >= 0
       /\ snapshot.bytesUploaded >= 0
       /\ snapshot.downloadedBytes >= 0
       /\ snapshot.uploadedBytes >= 0
       /\ snapshot.totalBytes >= 0

\* C33: when the batches of a migrateDirectory call have all been fetched
\* at the first attempt, the totalBatches of the preparing snapshot is
\* ceil(keyCount / batchSize) for the configured batch size and is the
\* number of fetch batches issued to the Source Adapter in the call.
C33_TotalBatches ==
  (call.kind = "directory" /\ attempt = 1 /\ pc = "d_wait3" /\ Delivered)
    => /\ snapshot.totalBatches = CeilDiv(Len(body.keys), config.batchSize)
       /\ snapshot.totalBatches = adapterCalls.batches

\* The time field f of the snapshot was assigned during the current call.
StampedInCall(f) == Len(progress[f]) = 2 /\ progress[f][1] = callNo

\* C34: within one migration call, retries included, startTime and endTime
\* are each assigned once (an assigned value is never replaced), and
\* endTime is assigned only by the update that makes the status terminal.
C34_TimesSetOnce ==
  [][(pc # "idle" /\ callNo' = callNo)
       => /\ StampedInCall("startTime")
               => progress'.startTime = progress.startTime
          /\ StampedInCall("endTime")
               => progress'.endTime = progress.endTime
          /\ progress'.endTime # progress.endTime
               => progress'.status \in {"completed", "error"}]_vars

\* ----------------------------- withRetry under every accepted configuration
\* validateConfig: "if (!config.retry?.maxAttempts) throw": zero is
\* rejected, every other number is accepted.
ValidateConfig(cfg) == cfg.maxAttempts # 0

\* The retry configurations the constructor accepts.
AcceptedConfigs ==
  {cfg \in [maxAttempts : (0 - 1)..MaxAttemptsCfg, backoffMs : {1, 2},
            maxBackoffMs : {3}, hasS3 : {TRUE}, hasMongo : {FALSE},
            batchSize : {5}, concurrency : {1}] : ValidateConfig(cfg)}

InitAccepted == InitWith(AcceptedConfigs) /\ Subscribed

AcceptedSpec == InitAccepted /\ [][NextRetry]_vars

\* C35: under every configuration the constructor accepts, a negative
\* maxAttempts included, withRetry has invoked the operation at least once
\* when it raises.
C35_AtLeastOneAttempt ==
  (call.kind = "operation" /\ Ended /\ outcome.kind = "raised")
    => Len(invocations) >= 1

\* No connection of the Engine is open.
NotOpen == ~conn.s3 /\ ~conn.storacha /\ conn.mongo = "none"

\* C36: a migration call made while the Engine's connections are not open
\* invokes no list, fetch or upload operation of an adapter in any of its
\* attempts, and ends by raising.
C36_NoAdapterCallsWhenClosed ==
  (call.kind \in {"file", "directory", "mongodb"} /\ NotOpen)
    => /\ adapterCalls.list = 0
       /\ adapterCalls.fetch = 0
       /\ adapterCalls.upload = 0
       /\ pc = "idle" => outcome.kind = "raised"
C36_Witness ==
  /\ call.kind = "file" /\ NotOpen /\ Ended /\ outcome.kind = "raised"
  /\ Len(invocations) = 2 /\ callNo = 2

\* ------------------------------- one StorachaClient called concurrently
\* A rejected call that leaves through the finally block as well.
CallUploadDirectoryClearing(c, files) ==
  /\ uploads[c].st # "running"
  /\ IF isUploading
       THEN /\ uploads' = [uploads EXCEPT ![c] =
                 [st |-> "rejected", files |-> files, served |-> 0,
                  result |-> UploadFailure("Upload already in progress")]]
            /\ isUploading' = FALSE
       ELSE /\ uploads' = [uploads EXCEPT ![c] =
                 [st |-> "running", files |-> files, served |-> 0,
                  result |-> [status |-> "none"]]]
            /\ isUploading' = TRUE

\* uploadDirectoryToStoracha(files) is called by c and runs up to its first
\* await: the in-progress guard returns at once, otherwise the flag is set.
CallUploadDirectory(c, files) ==
  /\ uploads[c].st # "running"
  /\ IF isUploading
       THEN /\ uploads' = [uploads EXCEPT ![c] =
                 [st |-> "rejected", files |-> files, served |-> 0,
                  result |-> UploadFailure("Upload already in progress")]]
            /\ isUploading' = isUploading
       ELSE /\ uploads' = [uploads EXCEPT ![c] =
                 [st |-> "running", files |-> files, served |-> 0,
                  result |-> [status |-> "none"]]]
            /\ isUploading' = TRUE

\* The accepted call of c ends: the upload service was invoked and
\* succeeded or failed, or an earlier step threw; the catch block builds
\* the failure response and the finally block clears the flag.
UploadDirectoryDone(c) ==
  /\ uploads[c].st = "running"
  /\ \E r \in {[served |-> 1,
                result |-> UploadSuccess(SumSizes(uploads[c].files))],
               [served |-> 1, result |-> UploadFailure("upload failed")],
               [served |-> 0, result |-> UploadFailure("No space found")]} :
       uploads' = [uploads EXCEPT ![c].st = "done",
                                  ![c].served = r.served,
                                  ![c].result = r.result]
  /\ isUploading' = FALSE

clientFrame ==
  <<config, conn, progress, snapshot, errorCalls, call, callNo, pc, attempt,
    lastError, invocations, waits, outcome, tasks, gen, body, adapterCalls,
    faults, progressCallback, registered, notified, engines, usedNames, now,
    env, alone>>

InitClient ==
  /\ InitWith({cfg \in Configs : cfg.maxAttempts = 1 /\ ~cfg.hasMongo
                                  /\ cfg.batchSize = S3BatchSize})
  /\ Subscribed

NextClient ==
  \/ \E c \in Callers, files \in {<<"a">>, <<"a", "b">>} :
       CallUploadDirectory(c, files) /\ UNCHANGED clientFrame
  \/ \E c \in Callers : UploadDirectoryDone(c) /\ UNCHANGED clientFrame

ClientSpec == InitClient /\ [][NextClient]_vars

\* C37: on one StorachaClient the in-progress flag is true exactly while
\* one accepted uploadDirectoryToStoracha call is executing; a call made
\* meanwhile returns success = false, "Upload already in progress", without
\* reaching the upload service and without clearing the flag; the flag is
\* cleared when the accepted call ends, successfully or not.
C37_DirectoryUploadGuard ==
  /\ isUploading <=> (\E c \in Callers : uploads[c].st = "running")
  /\ Cardinality({c \in Callers : uploads[c].st = "running"}) <= 1
  /\ \A c \in Callers :
       uploads[c].st = "rejected"
         => /\ uploads[c].result = UploadFailure("Upload already in progress")
            /\ uploads[c].served = 0
C37_Witness ==
  /\ isUploading
  /\ uploads["p"].st = "running"
  /\ uploads["q"].st = "rejected"
  /\ uploads["r"].st = "done" /\ ~uploads["r"].result.success

CallUpdateFileProgressUpload ==
  /\ \E bytes \in {ChunkBytes, Bucket.a} :
       /\ Deliver(UpdateFileProgress(progress, "a", bytes, Bucket.a, "upload"))
       /\ Called("updateFileProgress", "upload")
  /\ UNCHANGED <<instVars, engineVars, progressCallback, registered, errorCalls>>

InitFileProgress ==
  /\ InitWith({cfg \in Configs : cfg.maxAttempts = 1 /\ ~cfg.hasMongo
                                  /\ cfg.batchSize = S3BatchSize})
  /\ Subscribed

NextFileProgress ==
  \/ CallUpdateProgress
  \/ CallSetTotalBytes
  \/ CallUpdateFileProgress
  \/ CallUpdateFileProgressUpload
  \/ CallEmitFileComplete
  \/ CallEmitError

FileProgressSpec == InitFileProgress /\ [][NextFileProgress]_vars

\* The fields fs of the snapshot are the same after the step.
Same(fs) == \A f \in fs : progress'[f] = progress[f]

\* C39: updateFileProgress with phase download leaves uploadedBytes,
\* totalUploadBytes, totalFiles, completedFiles, failedFiles and errors as
\* they were, and with phase upload leaves downloadedBytes,
\* totalDownloadBytes and the same counters as they were.
C39_FileProgressFrame ==
  [][call'.kind = "updateFileProgress"
       => /\ Same({"totalFiles", "completedFiles", "failedFiles", "errors"})
          /\ call'.arg = "download"
               => Same({"uploadedBytes", "totalUploadBytes"})
          /\ call'.arg = "upload"
               => Same({"downloadedBytes", "totalDownloadBytes"})]_vars
C39_Witness ==
  /\ call.kind = "updateFileProgress" /\ call.arg = "upload"
  /\ snapshot.uploadedBytes = Bucket.a /\ snapshot.downloadedBytes = ChunkBytes
  /\ snapshot.completedFiles = 1 /\ snapshot.failedFiles = 1
  /\ Len(snapshot.errors) = 1

\* C40: createUniqueName never returns a name twice in one process: the
\* names returned so far, to whichever Engine instance, are pairwise
\* distinct, and each of them is in the usedNames set.
C40_NamesUnique ==
  \A i \in Instances, j \in Instances :
    \A k \in DOMAIN engines[i].names, l \in DOMAIN engines[j].names :
      /\ engines[i].names[k] \in usedNames
      /\ <<i, k>> # <<j, l>> => engines[i].names[k] # engines[j].names[l]
C40_Witness ==
  /\ Len(engines["x"].names) = 2 /\ Len(engines["y"].names) = 1
  /\ engines["x"].names[2][2] = engines["y"].names[1][2]
  /\ alone["x"].engine.names # engines["x"].names
====
